---- MODULE Spec2Model ----
(***************************************************************************)
(* Model of src/src/main.py: the resume-screening cloud function.          *)
(*                                                                         *)
(* handle_chat is the HTTP entry point.  Several requests may run in one   *)
(* process, so each request is a process with its own position (pc) and   *)
(* locals; the module globals `model` and `sheets_service` are shared.     *)
(* An action starts at an access to shared state or at a call of an        *)
(* external collaborator and runs the local code that follows it up to     *)
(* the next such point.                                                    *)
(***************************************************************************)
EXTENDS Naturals, Sequences, FiniteSets

\* ------------------------------------------------------------------ bounds

NumRequests == 2          \* requests handled by the process

Reqs == 1..NumRequests

\* ------------------------------------------------------ python values

None == "<None>"          \* Python's None
Absent == "<absent>"      \* a key / header / form field that is not there

\* bool(s) of a str (or of None): `if not x` is ~Truthy(x)
Truthy(s) == s # "" /\ s # None /\ s # Absent

\* x + y for the two operand types used at line 191: str + str concatenates,
\* str + int raises TypeError (neither __add__ nor __radd__ accepts it).
PyAdd(xtype, ytype) ==
    IF xtype = "str" /\ ytype = "str"
    THEN [raised |-> FALSE, exc |-> ""]
    ELSE [raised |-> TRUE,
          exc |-> "can only concatenate str (not \"int\") to str"]

\* ------------------------------------------------------ configuration

SheetIds == {None, "sheet-1"}       \* os.environ.get("SHEET_ID")

\* ------------------------------------------------------ request inputs

Methods == {"OPTIONS", "GET", "POST", "PUT"}

\* Authorization header values
AuthHeaders == {Absent, "Basic abc", "Bearer tok"}

\* request.get_json(silent=True): None when the body does not parse, a
\* non-dict JSON value (a list), or a dict; in a dict `message` may be absent,
\* a non-dict value (null, a string) or a dict with or without `text`.
JsonBodies ==
    {[shape |-> "none", message |-> Absent, text |-> Absent, jd |-> Absent],
     [shape |-> "list", message |-> Absent, text |-> Absent, jd |-> Absent]}
    \cup
    {[shape |-> "dict", message |-> m, text |-> t, jd |-> j] :
        m \in {"dict"}, t \in {Absent, "", "nested jd"},
        j \in {Absent, "", "top jd"}}
    \cup
    {[shape |-> "dict", message |-> m, text |-> Absent, jd |-> j] :
        m \in {Absent, "nondict"}, j \in {Absent, "", "top jd"}}

\* request.form: the `jd` field
FormBodies == {Absent, "", "form jd"}

\* a POST body: a JSON body under application/json, whose form is empty, or
\* a form under the form content type, whose JSON does not parse
Bodies ==
    {[content_type |-> "application/json", json |-> jb, form |-> Absent] :
        jb \in JsonBodies}
    \cup
    {[content_type |-> "application/x-www-form-urlencoded",
      json |-> [shape |-> "none", message |-> Absent, text |-> Absent,
                jd |-> Absent],
      form |-> fb] : fb \in FormBodies}

\* ------------------------------------------------------ sheet contents

\* the rows of the range as the Sheets API returns them: lists of strings of
\* any length; trailing empty cells are cut, leading and inner empty cells
\* are "".  An empty store, a store of short rows only, a store of one full
\* row, and a store that mixes short rows, empty cells and all four columns.
Sheets ==
    { <<>>,
      << <<"only name">> >>,
      << <<"name c", "content c">> >>,
      << <<"", "content b">>,
         <<"only name">>,
         <<"name d", "", "old ARCHIVED copy", "http://d">> >> }

\* what the range read does: raise (network / permission fault, bad range)
\* or return the rows
ReadOutcomes ==
    {[raised |-> TRUE, rows |-> <<>>]}
    \cup {[raised |-> FALSE, rows |-> sh] : sh \in Sheets}

\* what generate_content does: raise (timeout, auth, quota) or return text
GenOutcomes ==
    {[raised |-> TRUE, text |-> "quota exceeded"],
     [raised |-> FALSE, text |-> "# Resume report"]}

\* ------------------------------------------------------ pure helpers

\* verify_firebase_token, lines 116-119: the header check
\*   not auth_header or not auth_header.startswith("Bearer ")
StartsWithBearer(h) == h \in {"Bearer tok"}
\* the header check without startswith("Bearer ")
HeaderPresent(auth_header) == Truthy(auth_header)
HeaderHasBearer(auth_header) ==
    Truthy(auth_header) /\ StartsWithBearer(auth_header)

\* handle_chat line 227: `if not user`
UserNeverRefused(user) == FALSE      \* the check of line 227 left out
Unauthenticated(user) == ~Truthy(user)

\* handle_chat line 230
IsJson(content_type) == content_type = "application/json"

\* a or b on strings
PyOr(a, b) == IF Truthy(a) THEN a ELSE b

\* d.get(key, "") for a field that may be absent
GetOrEmpty(v) == IF v = Absent THEN "" ELSE v

\* handle_chat lines 231-235: extraction of jd_text.  `.get` on a value that
\* is not a dict raises AttributeError.
ExtractJd(is_json, json, form) ==
    IF is_json
    THEN IF json.shape = "list" \/ json.message = "nondict"
         THEN [raised |-> TRUE, jd_text |-> "",
               exc |-> "object has no attribute 'get'"]
         ELSE LET data == IF json.shape = "none"
                          THEN [shape |-> "dict", message |-> Absent,
                                text |-> Absent, jd |-> Absent]
                          ELSE json
                  nested == IF data.message = Absent THEN ""
                            ELSE GetOrEmpty(data.text)
              IN  [raised |-> FALSE,
                   jd_text |-> PyOr(nested, GetOrEmpty(data.jd)),
                   exc |-> ""]
    ELSE [raised |-> FALSE, jd_text |-> GetOrEmpty(form), exc |-> ""]

\* handle_chat line 237: `if not jd_text`
JdIsNone(jd_text) == jd_text = None  \* `if jd_text is None`
JdMissing(jd_text) == ~Truthy(jd_text)

\* status.lower() and `"archived" in ...`, on the status cells of SampleRows
Lower(s) == IF s = "old ARCHIVED copy" THEN "old archived copy" ELSE s
ContainsArchived(s) == s \in {"old archived copy", "archived"}

\* fetch_resumes_from_sheet line 139: `if len(row) < 2: continue`
RowSkipped(row) == Len(row) < 2

\* fetch_resumes_from_sheet lines 140-145: one row to one record
DecodeRow(row) ==
    LET status == IF Len(row) > 2 THEN row[3] ELSE ""
    IN  [name |-> row[1],
         content |-> row[2],
         is_archived |-> ContainsArchived(Lower(status)),
         path |-> IF Len(row) > 3 THEN row[4] ELSE "#"]

\* fetch_resumes_from_sheet lines 137-146: the loop over the rows
RECURSIVE DecodeRows(_)
DecodeRows(rows) ==
    IF rows = <<>> THEN <<>>
    ELSE IF RowSkipped(Head(rows)) THEN DecodeRows(Tail(rows))
    ELSE <<DecodeRow(Head(rows))>> \o DecodeRows(Tail(rows))

\* fetch_resumes_from_sheet, lines 130-149: [] when SHEET_ID is missing or
\* when anything inside the try raises, else the decoded rows.
fetch_resumes_from_sheet(sheet_id, outcome) ==
    IF ~Truthy(sheet_id) THEN <<>>
    ELSE IF outcome.raised THEN <<>>
    ELSE DecodeRows(outcome.rows)

\* analyze_with_gemini lines 173-176: one block per resume, in input order
RECURSIVE ContextStr(_)
ContextStr(resumes) ==
    IF resumes = <<>> THEN <<>>
    ELSE << [name |-> Head(resumes).name,
             path |-> Head(resumes).path,
             tag |-> IF Head(resumes).is_archived
                     THEN "[ARCHIVED]" ELSE "[ACTIVE]",
             content |-> Head(resumes).content] >>
         \o ContextStr(Tail(resumes))

\* analyze_with_gemini lines 179-190
FullPrompt(jd_text, resumes) ==
    [system_instruction |-> "SYSTEM INSTRUCTION: ...",
     jd_text |-> jd_text,
     context_str |-> ContextStr(resumes)]

\* analyze_with_gemini line 191, outside the try block:
\*   logger.log("Prompt length: " + len(full_prompt))
\* the argument is str + int.
LogPromptLength(full_prompt) == PyAdd("str", "int")

\* analyze_with_gemini lines 193-203: the guarded remote call
GenerateResult(outcome) ==
    IF outcome.raised
    THEN <<"Error generating content: ", outcome.text>>
    ELSE <<outcome.text>>

\* ------------------------------------------------------ responses

NoResponse == [status |-> 0, kind |-> "pending", key |-> "", body |-> <<>>]
\* falling off the end of handle_chat: the function returns None
ReturnedNone == [status |-> 0, kind |-> "None", key |-> "", body |-> <<>>]
\* line 221
PreflightResponse == [status |-> 204, kind |-> "text", key |-> "", body |-> <<"">>]
\* line 223
FormResponse == [status |-> 200, kind |-> "text", key |-> "", body |-> <<"HTML_FORM">>]
\* line 228
UnauthorizedResponse ==
    [status |-> 401, kind |-> "json", key |-> "error", body |-> <<"Unauthorized">>]
\* line 238
NoJdResponse ==
    [status |-> 400, kind |-> "text", key |-> "", body |-> <<"Error: No JD provided.">>]
\* line 243
NoResumesResponse ==
    [status |-> 500, kind |-> "text", key |-> "", body |-> <<"Error: No resumes found.">>]
\* lines 253-255
SystemErrorResponse(exc) ==
    [status |-> 500, kind |-> "text", key |-> "", body |-> <<"System Error: ", exc>>]
\* lines 247-251
ResultResponse(is_json, markdown_result) ==
    IF is_json
    THEN [status |-> 200, kind |-> "json", key |-> "markdown",
          body |-> markdown_result]
    ELSE [status |-> 200, kind |-> "text", key |-> "",
          body |-> <<"<html><body><pre>">> \o markdown_result
                   \o <<"</pre></body></html>">>]

\* ------------------------------------------------------ state

VARIABLES
    SHEET_ID,          \* line 30, read once at import
    model,             \* line 97: the global model handle, None or a handle
    sheets_service,    \* line 98: the global sheets handle, None or a handle
    models_built,      \* how many GenerativeModel objects were constructed
    services_built,    \* how many sheets clients were built
    req                \* per request: position, locals, response, history

vars == <<SHEET_ID, model, sheets_service, models_built, services_built, req>>

\* handles are numbered by construction: the n-th object built is handle n
Handle(n) == n
NoHandle == 0          \* the global is None

InitialRequest ==
    [pc |-> "start",
     method |-> None,
     auth_header |-> None,
     user |-> None,
     is_json |-> FALSE,
     jd_text |-> None,
     svc |-> NoHandle,
     rows |-> <<>>,
     resumes |-> <<>>,
     model_instance |-> NoHandle,
     resp |-> NoResponse,
     \* history, kept for the properties
     calls |-> <<>>,           \* external calls made, in order
     store |-> "untouched",    \* how the data store step went
     candidates |-> 0,         \* records the decoder returned
     adapter |-> "not called"] \* how analyze_with_gemini ended: "raised
                               \* in get_model", "raised at the log call",
                               \* "returned text", "returned error marker"

Init ==
    /\ SHEET_ID \in SheetIds
    /\ model = NoHandle
    /\ sheets_service = NoHandle
    /\ models_built = 0
    /\ services_built = 0
    /\ req = [r \in Reqs |-> InitialRequest]

\* handle_chat returns: the locals are gone, the response and history stay
Return(rec, response) ==
    [rec EXCEPT !.pc = "done", !.resp = response,
                !.svc = NoHandle, !.rows = <<>>, !.resumes = <<>>,
                !.model_instance = NoHandle]

\* the except clause of handle_chat, lines 253-255
CatchAll(rec, exc) == Return(rec, SystemErrorResponse(exc))

\* ------------------------------------------------------ external outcomes

\* auth.verify_id_token(token): the decoded claims, or an exception
\* (bad signature, expired, revoked)
VerifyOutcomes ==
    {[raised |-> TRUE, claims |-> None],
     [raised |-> FALSE, claims |-> "uid-1"]}

\* ------------------------------------------------------ actions

Globals == <<SHEET_ID, model, sheets_service, models_built, services_built>>

\* handle_chat lines 215-226 with verify_firebase_token lines 116-120:
\* the method dispatch and, for POST, the Authorization header check.
\* Any other method falls off the end of the function.
handle_chat(r) ==
    /\ req[r].pc = "start"
    /\ \E m \in Methods, h \in AuthHeaders :
         LET rec == [req[r] EXCEPT !.method = m]
             post == [rec EXCEPT !.auth_header = h]
         IN  req' = [req EXCEPT ![r] =
                 IF m = "OPTIONS" THEN Return(rec, PreflightResponse)
                 ELSE IF m = "GET" THEN Return(rec, FormResponse)
                 ELSE IF m = "POST"
                 THEN IF ~HeaderHasBearer(h)
                      THEN Return(post, UnauthorizedResponse)
                      ELSE [post EXCEPT !.pc = "verify_id_token"]
                 ELSE Return(rec, ReturnedNone)]
    /\ UNCHANGED Globals

\* handle_chat lines 227-238, after verify_firebase_token has returned:
\* the user check, the extraction of the job description and its check
AfterVerify(rec, body) ==
    IF Unauthenticated(rec.user)
    THEN Return(rec, UnauthorizedResponse)
    ELSE LET is_json == IsJson(body.content_type)
             ex == ExtractJd(is_json, body.json, body.form)
             mode == [rec EXCEPT !.is_json = is_json]
             got == [mode EXCEPT !.jd_text = ex.jd_text]
         IN  IF ex.raised THEN CatchAll(mode, ex.exc)
             ELSE IF JdMissing(ex.jd_text) THEN Return(got, NoJdResponse)
             ELSE [got EXCEPT !.pc = "get_sheets_service"]

\* verify_firebase_token lines 120-126: the call of the identity verifier,
\* whose exception becomes None; then handle_chat up to get_sheets_service
verify_id_token(r) ==
    /\ req[r].pc = "verify_id_token"
    /\ \E outcome \in VerifyOutcomes, body \in Bodies :
         LET called == [req[r] EXCEPT
                          !.calls = Append(@, "verify"),
                          !.user = IF outcome.raised THEN None
                                   ELSE outcome.claims]
         IN  req' = [req EXCEPT ![r] = AfterVerify(called, body)]
    /\ UNCHANGED Globals

\* get_sheets_service line 110 (and 113 when the handle exists): the read
\* of the global
get_sheets_service(r) ==
    /\ req[r].pc = "get_sheets_service"
    /\ req' = [req EXCEPT ![r] =
           IF sheets_service = NoHandle
           THEN [@ EXCEPT !.pc = "build_sheets_service"]
           ELSE [@ EXCEPT !.pc = "fetch", !.svc = sheets_service]]
    /\ UNCHANGED Globals

\* get_sheets_service lines 111-113: google.auth.default() and build(), then
\* the assignment of the global.  An exception here is outside any try of
\* fetch_resumes_from_sheet and reaches the except clause of handle_chat.
build_sheets_service(r) ==
    /\ req[r].pc = "build_sheets_service"
    /\ \/ /\ req' = [req EXCEPT ![r] =
                 CatchAll([@ EXCEPT !.store = "credentials raised"],
                          "DefaultCredentialsError")]
          /\ UNCHANGED Globals
       \/ /\ services_built' = services_built + 1
          /\ sheets_service' = Handle(services_built + 1)
          /\ req' = [req EXCEPT ![r] =
                 [@ EXCEPT !.pc = "fetch",
                           !.svc = Handle(services_built + 1)]]
          /\ UNCHANGED <<SHEET_ID, model, models_built>>

\* handle_chat lines 241-243 around fetch_resumes_from_sheet lines 128-149
fetch(r) ==
    /\ req[r].pc = "fetch"
    /\ \E outcome \in ReadOutcomes :
         LET reads == Truthy(SHEET_ID)
             resumes == fetch_resumes_from_sheet(SHEET_ID, outcome)
             fetched == [req[r] EXCEPT
                 !.calls = IF reads THEN Append(@, "read") ELSE @,
                 !.store = IF ~reads THEN "no sheet id"
                           ELSE IF outcome.raised THEN "read raised"
                           ELSE "read ok",
                 !.rows = IF reads /\ ~outcome.raised
                          THEN outcome.rows ELSE <<>>,
                 !.resumes = resumes,
                 !.candidates = Len(resumes)]
         IN  req' = [req EXCEPT ![r] =
                 IF resumes = <<>>
                 THEN Return(fetched, NoResumesResponse)
                 ELSE [fetched EXCEPT !.pc = "get_model"]]
    /\ UNCHANGED Globals

\* analyze_with_gemini line 152 into get_model line 102 (and 106 when the
\* handle exists): the read of the global
get_model(r) ==
    /\ req[r].pc = "get_model"
    /\ req' = [req EXCEPT ![r] =
           IF model = NoHandle
           THEN [@ EXCEPT !.pc = "build_model"]
           ELSE [@ EXCEPT !.pc = "compose", !.model_instance = model]]
    /\ UNCHANGED Globals

\* get_model lines 103-106: vertexai.init() and GenerativeModel(), then the
\* assignment of the global.  An exception here leaves analyze_with_gemini
\* (line 152 is outside its try) and reaches the except clause of handle_chat.
build_model(r) ==
    /\ req[r].pc = "build_model"
    /\ \/ /\ req' = [req EXCEPT ![r] =
                 CatchAll([@ EXCEPT !.adapter = "raised in get_model"],
                          "vertexai.init failed")]
          /\ UNCHANGED Globals
       \/ /\ models_built' = models_built + 1
          /\ model' = Handle(models_built + 1)
          /\ req' = [req EXCEPT ![r] =
                 [@ EXCEPT !.pc = "compose",
                           !.model_instance = Handle(models_built + 1)]]
          /\ UNCHANGED <<SHEET_ID, sheets_service, services_built>>

\* analyze_with_gemini lines 154-203 and handle_chat lines 245-255: the
\* prompt, the log call of line 191, the guarded remote call, the response.
analyze_with_gemini(r) ==
    /\ req[r].pc = "compose"
    /\ LET full_prompt == FullPrompt(req[r].jd_text, req[r].resumes)
           logged == LogPromptLength(full_prompt)
       IN  IF logged.raised
           THEN req' = [req EXCEPT ![r] =
                    CatchAll([@ EXCEPT !.adapter = "raised at the log call"],
                             logged.exc)]
           ELSE \E outcome \in GenOutcomes :
                  req' = [req EXCEPT ![r] =
                    Return([@ EXCEPT !.calls = Append(@, "generate"),
                                     !.adapter =
                                        IF outcome.raised
                                        THEN "returned error marker"
                                        ELSE "returned text"],
                           ResultResponse(req[r].is_json,
                                          GenerateResult(outcome)))]
    /\ UNCHANGED Globals

Next ==
    \E r \in Reqs :
        \/ handle_chat(r)
        \/ verify_id_token(r)
        \/ get_sheets_service(r)
        \/ build_sheets_service(r)
        \/ fetch(r)
        \/ get_model(r)
        \/ build_model(r)
        \/ analyze_with_gemini(r)

Spec == Init /\ [][Next]_vars

\* ------------------------------------------------------ properties

Done(r) == req[r].pc = "done"
Post(r) == req[r].method = "POST"
Called(r, c) == \E i \in 1..Len(req[r].calls) : req[r].calls[i] = c
ModelTexts == {o.text : o \in {g \in GenOutcomes : ~g.raised}}

\* C1: a POST whose token verifies, whose job description is non-empty, whose
\* sheet fetch decodes at least one candidate and whose model call does not
\* fail ends with status 200 and the model's text, unchanged, as the
\* `markdown` field (JSON mode) or inside the <pre> block (form mode).
C1_VerifiedPostReturnsModelText ==
    \A r \in Reqs :
        ( /\ Done(r) /\ Post(r)
          /\ Truthy(req[r].user)
          /\ Truthy(req[r].jd_text)
          /\ req[r].candidates > 0
          /\ req[r].adapter \notin {"raised in get_model",
                                    "returned error marker"} )
        => \E t \in ModelTexts :
              req[r].resp = ResultResponse(req[r].is_json, <<t>>)

C3_AuthFailureIs401 ==
    \A r \in Reqs :
        ( /\ Done(r) /\ Post(r)
          /\ \/ req[r].auth_header \in {Absent, "Basic abc"}
             \/ (Called(r, "verify") /\ req[r].user = None) )
        => /\ req[r].resp = UnauthorizedResponse
           /\ ~Called(r, "read")
           /\ ~Called(r, "generate")
           /\ req[r].store = "untouched"
           /\ req[r].adapter = "not called"

\* C3 witness: one request was refused for its header, another for a token
\* the verifier rejected.
C3_Witness ==
    \E r1, r2 \in Reqs :
        /\ Done(r1) /\ Post(r1) /\ req[r1].auth_header \in {Absent, "Basic abc"}
        /\ req[r1].calls = <<>>
        /\ Done(r2) /\ Post(r2) /\ req[r2].auth_header = "Bearer tok"
        /\ req[r2].calls = <<"verify">> /\ req[r2].user = None
        /\ req[r1].resp.status = 401 /\ req[r2].resp = req[r1].resp

\* analyze_with_gemini never reaches a return statement: every call ends in
\* get_model or at the log call of line 191.
AdapterNeverReturns ==
    \A r \in Reqs :
        /\ req[r].adapter \notin {"returned text", "returned error marker"}
        /\ ~Called(r, "generate")

\* C5: analyze_with_gemini never raises to its caller.
C5_AdapterNeverRaises ==
    \A r \in Reqs :
        req[r].adapter \notin {"raised in get_model", "raised at the log call"}

\* the cells of a row that are not the empty string
NonEmptyFields(row) == Cardinality({i \in 1..Len(row) : row[i] # ""})
RowsWithTwoFields(rows) ==
    Cardinality({i \in 1..Len(rows) : NonEmptyFields(rows[i]) >= 2})

\* C6: the decoder's output holds no record of a row with fewer than 2
\* non-empty fields: every record has a non-empty name and a non-empty
\* content, and there are no more records than rows.
C6_RecordsHaveNameAndContent ==
    \A r \in Reqs :
        req[r].store = "read ok"
        => /\ \A i \in 1..Len(req[r].resumes) :
                 /\ req[r].resumes[i].name # ""
                 /\ req[r].resumes[i].content # ""
           /\ Len(req[r].resumes) <= RowsWithTwoFields(req[r].rows)
           /\ Len(req[r].resumes) <= Len(req[r].rows)

\* C7: each global handle is constructed once, whatever the interleaving,
\* and every caller holds that one handle.
C7_HandlesConstructedOnce ==
    /\ models_built <= 1
    /\ services_built <= 1
    /\ \A r \in Reqs :
          /\ req[r].svc \in {NoHandle, Handle(1)}
          /\ req[r].model_instance \in {NoHandle, Handle(1)}

\* C8: an authenticated POST with a job description whose data store cannot
\* be reached (no sheet id, credentials failure while obtaining the handle,
\* range read raising) ends with the 500 "Error: No resumes found." response
\* of an empty store, and the model is not called.
C8_StoreFailureIsNoResumes ==
    \A r \in Reqs :
        ( /\ Done(r) /\ Post(r)
          /\ req[r].store \in {"no sheet id", "credentials raised",
                               "read raised"} )
        => /\ req[r].resp = NoResumesResponse
           /\ ~Called(r, "generate")

\* C9: every request, whatever its method, ends with a response that has a
\* body and a status code.
C9_EveryRequestGetsAResponse ==
    \A r \in Reqs :
        Done(r) => /\ req[r].resp.kind \in {"text", "json"}
                   /\ req[r].resp.status \in 100..599
                   /\ req[r].resp.body # <<>>

====
